---- MODULE Spec2Model ----
(***************************************************************************)
(* Model of the Drive polling / change-detection loop                      *)
(* (src/src/backend/drive_service.py) and of the message forwarding        *)
(* endpoint add_thread (src/src/backend/server.py).                        *)
(*                                                                         *)
(* Python None is modelled as the empty sequence <<>> and a present value  *)
(* v as the one-element sequence <<v>>.                                    *)
(***************************************************************************)
EXTENDS Integers, Sequences, FiniteSets, TLC

(***************************************************************************)
(* Bounds of the model                                                     *)
(***************************************************************************)
\* number of edits the document source undergoes
MaxEdits == 2
\* longest streamed response, in fragments
MaxChunks == 2
\* longest free text handed to detect_tool_invocation, in characters
MaxTextLen == 5
\* most memories the backend returns for an assistant
MaxMemories == 2
\* longest bucket handed to format_recent_context
MaxBucket == 6
\* longest list of related memories handed to build_mermaid_graph
MaxRelated == 11
MaxUpdates == 2

\* the configured list of watched documents (file_ids) and the target client
FileIds == <<"A", "B">>
ClientId == "c1"
\* text a watched document can hold
Contents == {"", "a", "b"}
\* fragment kinds and fragment payloads of a streamed response
ChunkTypes == {"content_streaming", "status"}
ChunkTexts == {"x", "y"}

\* default polling interval, seconds
Interval == 300

None == <<>>
Some(v) == <<v>>

Files == {FileIds[i] : i \in 1..Len(FileIds)}

VARIABLES
    pc,          \* position of poll_documents
    idx,         \* index of the for loop over file_ids
    other,       \* locals of the process_document call of a second poller
                 \* instance on the same store
    frame,       \* locals of the current / most recent process_document call,
                 \* with what it did: messages sent, store writes called,
                 \* and the stored record when the call began (before)
    drive,       \* the document source: per file its text and modifiedTime
    edits,       \* number of edits made to the source so far
    store,       \* drive documents table: file_id -> record (partial)
    clients,     \* clients table: client_id -> encrypted api key (partial)
    assistants,  \* assistants table: client_id -> assistant_id (partial)
    supplied,    \* per stored client, the api key it was created with
    tool,        \* the last tool call: text, detected name, result
    processed,   \* files whose process_document was called in this cycle
    fwdFailed,   \* files whose forward raised in this cycle
    started,     \* TRUE once the first cycle is over
    sleeps,      \* sleeps completed since the last cycle ended
    sleptFor,    \* delay passed to the last completed sleep
    interrupted, \* an external interrupt / cancellation was delivered
    fwd,         \* outcome of the last forward or server call: path,
                 \* fragments, response, http status, and what the call did
    chats,       \* chats table: chat_id -> row (partial)
    delivered    \* the updates handed to log_thread so far, in order, each
                 \* with what the call did

vars == <<pc, idx, other, frame, drive, edits, store, clients, assistants, supplied,
          tool, processed, fwdFailed, started, sleeps, sleptFor, interrupted,
          fwd, chats, delivered>>

(***************************************************************************)
(* ContentHasher: hashlib.md5(content.encode("utf-8")).hexdigest()         *)
(***************************************************************************)
compute_content_hash(content) ==
    CASE content = ""  -> "d41d8cd98f00b204e9800998ecf8427e"
      [] content = "a" -> "0cc175b9c0f1b6a831c399e269772661"
      [] content = "b" -> "92eb5ffee6ae2fec3ad71c777531578f"

(***************************************************************************)
(* Document store primitives.  db.py under src/ has no drive-document      *)
(* functions; these follow the store interface of the specification and    *)
(* the argument lists of the calls in drive_service.py.                    *)
(***************************************************************************)
lookup_drive_document(st, file_id) ==
    IF file_id \in DOMAIN st THEN Some(st[file_id]) ELSE None

create_drive_document(st, file_id, client_id, file_name, content_hash, last_modified, content) ==
    [f \in DOMAIN st \cup {file_id} |->
        IF f = file_id
        THEN [client_id |-> client_id, file_name |-> file_name,
              content_hash |-> content_hash, last_modified |-> last_modified,
              last_content |-> content]
        ELSE st[f]]

update_drive_document(st, file_id, content_hash, content) ==
    [st EXCEPT ![file_id] = [@ EXCEPT !.content_hash = content_hash,
                                      !.last_content = content]]

(***************************************************************************)
(* encryption.py.  Text is a sequence of code points and a byte string a   *)
(* sequence of bytes.  The Fernet token is its version byte, its IV and    *)
(* the enciphered bytes; the time stamp, the HMAC and the base64 armour    *)
(* are left out, and the AES stream is a byte-wise pad of key and IV.      *)
(***************************************************************************)
\* the secret of the ENCRYPTION_KEY environment variable
ENCRYPTION_KEY == 77
\* the first byte of every Fernet token
FernetVersion == 128
\* the IVs Fernet may draw for one encryption
IVs == {1, 2}
\* api keys a caller may supply: "k1" and "\u00e9"
ApiKeys == {<<107, 49>>, <<233>>}

\* str.encode(): UTF-8 of code points below 2048
RECURSIVE utf8_encode(_)
utf8_encode(text) ==
    IF text = <<>> THEN <<>>
    ELSE (IF Head(text) < 128
          THEN <<Head(text)>>
          ELSE <<192 + (Head(text) \div 64), 128 + (Head(text) % 64)>>)
         \o utf8_encode(Tail(text))

\* bytes.decode()
RECURSIVE utf8_decode(_)
utf8_decode(bytes) ==
    IF bytes = <<>> THEN <<>>
    ELSE IF Head(bytes) < 128
         THEN <<Head(bytes)>> \o utf8_decode(Tail(bytes))
         ELSE <<(Head(bytes) - 192) * 64 + (bytes[2] - 128)>>
              \o utf8_decode(Tail(Tail(bytes)))

Pad(iv, i) == (ENCRYPTION_KEY + 31 * iv + i) % 256

fernet_encrypt(data, iv) ==
    <<FernetVersion, iv>> \o [i \in 1..Len(data) |-> (data[i] + Pad(iv, i)) % 256]

\* a token that fernet.decrypt accepts; any other raises InvalidToken
fernet_valid(token) == Len(token) >= 2 /\ token[1] = FernetVersion

fernet_decrypt(token) ==
    [i \in 1..(Len(token) - 2) |-> (token[i + 2] + 256 - Pad(token[2], i)) % 256]

encrypt_api_key_plain(api_key, iv) == api_key

\* fernet.encrypt(api_key.encode()).decode(), with the IV Fernet drew
encrypt_api_key(api_key, iv) == fernet_encrypt(utf8_encode(api_key), iv)

\* fernet.decrypt(encrypted_key.encode()).decode()
decrypt_api_key(encrypted_key) == utf8_decode(fernet_decrypt(encrypted_key))

(***************************************************************************)
(* clients / assistants tables (db.py)                                     *)
(***************************************************************************)
lookup_client(client_id) ==
    IF client_id \in DOMAIN clients THEN Some(clients[client_id]) ELSE None

lookup_assistant(client_id) ==
    IF client_id \in DOMAIN assistants THEN Some(assistants[client_id]) ELSE None

(***************************************************************************)
(* Document source (Drive)                                                 *)
(***************************************************************************)
\* metadata of a file as returned by files().get()
get_file_metadata(file_id) ==
    [name |-> file_id, modifiedTime |-> drive[file_id].modifiedTime]

\* a python value is falsy when it is None or the empty string
Falsy(opt) == opt = None \/ opt[1] = ""

(***************************************************************************)
(* ChangeDetector: lines 170-177 of process_document                       *)
(***************************************************************************)
classify_reprocess(existing_doc, content_hash) ==
    IF existing_doc # None THEN "Changed" ELSE "New"

classify_empty_is_new(existing_doc, content_hash) ==
    IF existing_doc # None /\ existing_doc[1].content_hash # ""
    THEN IF existing_doc[1].content_hash = content_hash
         THEN "Unchanged" ELSE "Changed"
    ELSE "New"

classify(existing_doc, content_hash) ==
    IF existing_doc # None
    THEN IF existing_doc[1].content_hash = content_hash
         THEN "Unchanged" ELSE "Changed"
    ELSE "New"

(***************************************************************************)
(* Stream consumption: the async-for loops of add_thread and               *)
(* process_document, then "".join(output)                                  *)
(***************************************************************************)
RECURSIVE Join(_)
Join(output) ==
    IF output = <<>> THEN "" ELSE Head(output) \o Join(Tail(output))

RECURSIVE ConsumeLoop(_, _, _)
ConsumeLoop(chunks, i, output) ==
    IF i > Len(chunks) THEN output
    ELSE IF chunks[i].type = "content_streaming"
         THEN ConsumeLoop(chunks, i + 1, Append(output, chunks[i].content))
         ELSE ConsumeLoop(chunks, i + 1, output)

ConsumeStream_all(chunks) ==
    Join([i \in 1..Len(chunks) |-> chunks[i].content])

ConsumeStream(chunks) == Join(ConsumeLoop(chunks, 1, <<>>))

Chunk == [type : ChunkTypes, content : ChunkTexts]
Streams == UNION {[1..n -> Chunk] : n \in 0..MaxChunks}

(***************************************************************************)
(* Initial state                                                           *)
(***************************************************************************)
NoFrame ==
    [file |-> "", done |-> TRUE, metadata |-> None, content |-> None,
     content_hash |-> "", existing_doc |-> None, class |-> "none",
     fwd |-> "none", sent |-> 0, writes |-> 0, write |-> "none",
     written |-> FALSE, before |-> None, note |-> "",
     replaced |-> None, overtaken |-> FALSE]

NoFwd ==
    [path |-> "none", status |-> 0, error |-> "", chunks |-> <<>>,
     response |-> "", content |-> "", had_client |-> FALSE,
     had_assistant |-> FALSE, decrypted |-> FALSE, session_key |-> None,
     assistant_calls |-> 0, threads |-> 0, sent |-> 0, tables |-> <<>>]

\* the key and IV of the client row present before the services start
InitKey == <<107, 49>>
InitIV == 1

NoTool ==
    [op |-> "none", text |-> <<>>, name |-> None, parts |-> <<>>,
     memories |-> <<>>, backend |-> "none", queried |-> FALSE,
     result |-> [status |-> "none"]]

Init ==
    /\ pc = "loop"
    /\ idx = 1
    /\ frame = NoFrame
    /\ other = NoFrame
    /\ drive \in [Files -> [content : {"a"}, modifiedTime : {0}]]
    /\ edits = 0
    /\ store = [f \in {} |-> 0]
    /\ \E cs \in SUBSET {ClientId} :
          /\ clients = [c \in cs |-> encrypt_api_key(InitKey, InitIV)]
          /\ supplied = [c \in cs |-> InitKey]
    /\ tool = NoTool
    /\ \E cs \in SUBSET {ClientId} : assistants = [c \in cs |-> "asst_1"]
    /\ processed = {}
    /\ fwdFailed = {}
    /\ started = FALSE
    /\ sleeps = 0
    /\ sleptFor = 0
    /\ interrupted = FALSE
    /\ fwd = NoFwd
    /\ chats = [c \in {} |-> 0]
    /\ delivered = <<>>

(***************************************************************************)
(* Control flow of poll_documents around one process_document call         *)
(***************************************************************************)
\* lines 241-242: except Exception inside process_document prints and the
\* call returns normally
forward_except_reraise == "raise"

forward_except == "return"

\* line 265: delay of the sleep after a completed cycle
cycle_delay == Interval

\* line 273: delay of the sleep after a cycle-level failure
retry_delay == Interval

\* how the call for file_ids[idx] ended: "return" goes on with the next
\* document or, after the last one, to the sleep of line 265; "raise" leaves
\* the for loop for the handler of lines 270-273; "await" suspends the call
Control(out) ==
    CASE out = "await" ->
            /\ pc' = "forward"
            /\ UNCHANGED <<chats, delivered, other, idx, started, sleeps>>
      [] out = "return" /\ idx < Len(FileIds) ->
            /\ pc' = "loop"
            /\ idx' = idx + 1
            /\ UNCHANGED <<chats, delivered, other, started, sleeps>>
      [] out = "return" /\ idx >= Len(FileIds) ->
            /\ pc' = "sleep"
            /\ started' = TRUE
            /\ sleeps' = 0
            /\ UNCHANGED idx
      [] out = "raise" ->
            /\ pc' = "retry_sleep"
            /\ started' = TRUE
            /\ sleeps' = 0
            /\ UNCHANGED idx

(***************************************************************************)
(* process_document, lines 152-200: up to the first awaited backend call   *)
(***************************************************************************)
FetchOutcomes == {"ok", "http_error", "raise"}
DbOutcomes == {"ok", "raise"}

process_document_begin(file_id, meta, cont, lk) ==
    LET metadata == IF meta = "ok" THEN Some(get_file_metadata(file_id)) ELSE None
        content == IF cont = "ok" THEN Some(drive[file_id].content) ELSE None
        content_hash == compute_content_hash(content[1])
        existing_doc == lookup_drive_document(store, file_id)
        f0 == [NoFrame EXCEPT !.file = file_id,
                              !.before = lookup_drive_document(store, file_id)]
        f1 == [f0 EXCEPT !.metadata = metadata]
        f2 == [f1 EXCEPT !.content = content]
        f3 == [f2 EXCEPT !.content_hash = content_hash]
        f4 == [f3 EXCEPT !.existing_doc = existing_doc,
                         !.class = classify(existing_doc, content_hash)]
    IN  IF meta = "raise" THEN [frame |-> f0, out |-> "raise"]
        ELSE IF metadata = None THEN [frame |-> f1, out |-> "return"]
        ELSE IF cont = "raise" THEN [frame |-> f1, out |-> "raise"]
        ELSE IF Falsy(content) THEN [frame |-> f2, out |-> "return"]
        ELSE IF lk = "raise" THEN [frame |-> f3, out |-> "raise"]
        ELSE IF f4.class = "Unchanged" THEN [frame |-> f4, out |-> "return"]
        ELSE IF lookup_client(ClientId) = None
        THEN [frame |-> [f4 EXCEPT !.note = "Client not found"], out |-> "return"]
        ELSE IF lookup_assistant(ClientId) = None
        THEN [frame |-> [f4 EXCEPT !.note = "No assistant found"], out |-> "return"]
        ELSE [frame |-> [f4 EXCEPT !.done = FALSE, !.fwd = "pending"],
              out |-> "await"]

ProcessDocument ==
    /\ pc = "loop"
    /\ \E meta \in FetchOutcomes, cont \in FetchOutcomes, lk \in DbOutcomes :
          LET r == process_document_begin(FileIds[idx], meta, cont, lk)
          IN  /\ frame' = r.frame
              /\ Control(r.out)
    /\ processed' = processed \cup {FileIds[idx]}
    /\ UNCHANGED <<chats, delivered, other, drive, edits, store, clients, assistants, supplied, tool, fwdFailed,
                   sleptFor, interrupted, fwd>>

(***************************************************************************)
(* process_document, lines 200-242: the forward and the store write        *)
(***************************************************************************)
\* lines 228-239
WriteBack_stale(st, fr) ==
    IF fr.existing_doc # None
    THEN update_drive_document(st, fr.file, fr.content_hash,
                               fr.existing_doc[1].last_content)
    ELSE create_drive_document(st, fr.file, ClientId, fr.metadata[1].name,
                               fr.content_hash, fr.metadata[1].modifiedTime,
                               "")

WriteBack(st, fr) ==
    IF fr.existing_doc # None
    THEN update_drive_document(st, fr.file, fr.content_hash, fr.content[1])
    ELSE create_drive_document(st, fr.file, ClientId, fr.metadata[1].name,
                               fr.content_hash, fr.metadata[1].modifiedTime,
                               fr.content[1])

ForwardStages == {"create_thread", "add_message", "stream"}

\* the record is written before the forward is known to have succeeded
ForwardFail_written ==
    /\ pc = "forward"
    /\ \E stage \in ForwardStages :
          frame' = [frame EXCEPT !.done = TRUE, !.fwd = "failed",
                        !.sent = IF stage = "create_thread" THEN 0 ELSE 1]
    /\ fwdFailed' = fwdFailed \cup {frame.file}
    /\ store' = WriteBack(store, frame)
    /\ Control(forward_except)
    /\ UNCHANGED <<chats, delivered, other, drive, edits, clients, assistants, supplied, tool, processed,
                   sleptFor, interrupted, fwd>>

\* create_thread, add_message or the stream raises: caught at line 241
ForwardFail ==
    /\ pc = "forward"
    /\ \E stage \in ForwardStages :
          frame' = [frame EXCEPT !.done = TRUE, !.fwd = "failed",
                        !.sent = IF stage = "create_thread" THEN 0 ELSE 1]
    /\ fwdFailed' = fwdFailed \cup {frame.file}
    /\ Control(forward_except)
    /\ UNCHANGED <<chats, delivered, other, drive, edits, store, clients, assistants, supplied, tool, processed,
                   sleptFor, interrupted, fwd>>

\* the stream is consumed to its end, then the record is written; an insert
\* of a key that exists meanwhile, or a failing database, raises into line 241
ForwardComplete(replies) ==
    /\ pc = "forward"
    /\ \E chunks \in replies, dbw \in DbOutcomes :
          LET kind == IF frame.existing_doc # None THEN "update" ELSE "insert"
              ok == dbw = "ok" /\ ~(kind = "insert" /\ frame.file \in DOMAIN store)
          IN  /\ fwd' = [NoFwd EXCEPT !.path = "drive", !.chunks = chunks,
                                          !.response = ConsumeStream(chunks)]
              /\ store' = IF ok THEN WriteBack(store, frame) ELSE store
              /\ frame' = [frame EXCEPT !.done = TRUE, !.fwd = "ok", !.sent = 1,
                               !.writes = 1, !.write = kind, !.written = ok,
                               !.replaced = lookup_drive_document(store, frame.file)]
              /\ Control(IF ok THEN "return" ELSE forward_except)
    /\ UNCHANGED <<chats, delivered, other, drive, edits, clients, assistants, supplied, tool, processed, fwdFailed,
                   sleptFor, interrupted>>

\* the reply the backend streams while the poller is studied: its text has
\* no influence on the poller, which drops the response
PollReplies == {<<[type |-> "content_streaming", content |-> "x"]>>}

ForwardSucceed == ForwardComplete(PollReplies)

\* the same step with every reply of the bounded set
ForwardStream == ForwardComplete(Streams)

(***************************************************************************)
(* poll_documents, lines 259-273: the sleeps and the interrupt             *)
(***************************************************************************)
NewCycle ==
    /\ pc' = "loop"
    /\ idx' = 1
    /\ processed' = {}
    /\ fwdFailed' = {}
    /\ sleeps' = sleeps + 1

SleepOutcomes == {"ok", "raise"}

\* line 265
Sleep ==
    /\ pc = "sleep"
    /\ \E o \in SleepOutcomes :
          IF o = "ok"
          THEN NewCycle /\ sleptFor' = cycle_delay
          ELSE /\ pc' = "retry_sleep"
               /\ UNCHANGED <<chats, delivered, other, idx, processed, fwdFailed, sleeps, sleptFor>>
    /\ UNCHANGED <<chats, delivered, other, frame, drive, edits, store, clients, assistants, supplied, tool, started,
                   interrupted, fwd>>

\* the handler of line 270 going back to the for loop without the sleep
RetrySleep_skipped ==
    /\ pc = "retry_sleep"
    /\ pc' = "loop"
    /\ idx' = 1
    /\ processed' = {}
    /\ fwdFailed' = {}
    /\ UNCHANGED <<chats, delivered, other, frame, drive, edits, store, clients, assistants, supplied, tool, started,
                   sleeps, sleptFor, interrupted, fwd>>

\* line 273, inside the except handler: nothing catches what it raises
RetrySleep ==
    /\ pc = "retry_sleep"
    /\ \E o \in SleepOutcomes :
          IF o = "ok"
          THEN NewCycle /\ sleptFor' = retry_delay
          ELSE /\ pc' = "escaped"
               /\ UNCHANGED <<chats, delivered, other, idx, processed, fwdFailed, sleeps, sleptFor>>
    /\ UNCHANGED <<chats, delivered, other, frame, drive, edits, store, clients, assistants, supplied, tool, started,
                   interrupted, fwd>>

\* KeyboardInterrupt: inside the try it is caught by line 267 and the loop
\* breaks; inside the except handler it propagates out of poll_documents
Interrupt ==
    /\ pc \in {"loop", "forward", "sleep", "retry_sleep"}
    /\ pc' = IF pc = "retry_sleep" THEN "escaped" ELSE "stopped"
    /\ interrupted' = TRUE
    /\ UNCHANGED <<chats, delivered, other, idx, frame, drive, edits, store, clients, assistants, supplied, tool,
                   processed, fwdFailed, started, sleeps, sleptFor, fwd>>

Running == pc \in {"loop", "forward", "sleep", "retry_sleep"}

(***************************************************************************)
(* Environment: the document source changes; a document is registered      *)
(***************************************************************************)
EditDoc ==
    /\ Running
    /\ edits < MaxEdits
    /\ \E f \in Files, c \in Contents :
          /\ c # drive[f].content
          /\ drive' = [drive EXCEPT ![f] = [content |-> c,
                                            modifiedTime |-> edits + 1]]
    /\ edits' = edits + 1
    /\ UNCHANGED <<chats, delivered, other, pc, idx, frame, store, clients, assistants, supplied, tool, processed,
                   fwdFailed, started, sleeps, sleptFor, interrupted, fwd>>

\* registration that rewrites the record of a document already watched
RegisterDocument_overwrite ==
    /\ Running
    /\ \E f \in Files, meta \in {"ok", "http_error"} :
          LET metadata == IF meta = "ok" THEN Some(get_file_metadata(f)) ELSE None
          IN  store' = IF metadata # None
                       THEN create_drive_document(store, f, ClientId,
                                metadata[1].name, "",
                                metadata[1].modifiedTime, "")
                       ELSE store
    /\ UNCHANGED <<chats, delivered, other, pc, idx, frame, drive, edits, clients, assistants, supplied, tool,
                   processed, fwdFailed, started, sleeps, sleptFor,
                   interrupted, fwd>>

\* register_document_for_monitoring, lines 275-301
RegisterDocument ==
    /\ Running
    /\ \E f \in Files, meta \in {"ok", "http_error"} :
          LET metadata == IF meta = "ok" THEN Some(get_file_metadata(f)) ELSE None
              existing == lookup_drive_document(store, f)
          IN  store' = IF metadata # None /\ existing = None
                       THEN create_drive_document(store, f, ClientId,
                                metadata[1].name, "",
                                metadata[1].modifiedTime, "")
                       ELSE store
    /\ UNCHANGED <<chats, delivered, other, pc, idx, frame, drive, edits, clients, assistants, supplied, tool,
                   processed, fwdFailed, started, sleeps, sleptFor,
                   interrupted, fwd>>

(***************************************************************************)
(* A second poller instance on the same store and the same documents: its  *)
(* process_document runs like the first one's, in two steps around the     *)
(* awaited forward.                                                        *)
(***************************************************************************)
\* lines 152-200 in the second instance, on the document the first
\* instance is forwarding: the call reads the source and the record, and
\* goes on to the forward when it finds the document New or Changed
OtherBegin ==
    /\ other.done
    /\ pc = "forward"
    /\ LET r == process_document_begin(frame.file, "ok", "ok", "ok")
       IN  /\ r.out = "await"
           /\ other' = r.frame
    /\ UNCHANGED <<chats, delivered, pc, idx, frame, drive, edits, store, clients, assistants,
                   supplied, tool, processed, fwdFailed, started, sleeps,
                   sleptFor, interrupted, fwd>>

\* lines 200-242 in the second instance: the forward succeeds and the
\* record is written; a first-instance call in flight on the same document
\* has then been overtaken
OtherComplete ==
    /\ ~other.done
    /\ LET kind == IF other.existing_doc # None THEN "update" ELSE "insert"
           ok == ~(kind = "insert" /\ other.file \in DOMAIN store)
       IN  /\ store' = IF ok THEN WriteBack(store, other) ELSE store
           /\ other' = [other EXCEPT !.done = TRUE, !.fwd = "ok", !.sent = 1,
                            !.writes = 1, !.write = kind, !.written = ok,
                            !.replaced = lookup_drive_document(store, other.file)]
           /\ frame' = IF ok /\ ~frame.done /\ frame.file = other.file
                        THEN [frame EXCEPT !.overtaken = TRUE]
                        ELSE frame
    /\ UNCHANGED <<chats, delivered, pc, idx, drive, edits, clients, assistants, supplied, tool,
                   processed, fwdFailed, started, sleeps, sleptFor,
                   interrupted, fwd>>

(***************************************************************************)
(* server.py                                                               *)
(***************************************************************************)
\* text a caller sends to /messages/send
MsgContents == {"hello"}
\* line 68
SummarizePrompt == "Summarize all the memories that you have"

RemoteOutcomes == {"ok", "create_thread", "add_message", "stream"}

\* the call as a record: what it answered and what it did on the way
Call(path) ==
    [NoFwd EXCEPT !.path = path,
                  !.had_client = lookup_client(ClientId) # None,
                  !.had_assistant = lookup_assistant(ClientId) # None,
                  !.tables = <<clients, assistants>>]

\* lines 50-64: the part of add_thread after the lookup of the client;
\* remote names the backend call that raises, if one does
forward_message(c0, client, client_id, chunks, remote) ==
    IF ~fernet_valid(client[1])
    THEN [c0 EXCEPT !.status = 500, !.error = "InvalidToken"]
    ELSE LET c1 == [c0 EXCEPT !.decrypted = TRUE,
                       !.session_key = Some(decrypt_api_key(client[1]))]
         IN  IF lookup_assistant(client_id) = None
             THEN [c1 EXCEPT !.status = 500, !.error = "TypeError"]
             ELSE IF remote = "create_thread"
             THEN [c1 EXCEPT !.status = 500, !.error = "RemoteError"]
             ELSE IF remote \in {"add_message", "stream"}
             THEN [c1 EXCEPT !.status = 500, !.error = "RemoteError",
                             !.threads = 1, !.sent = 1]
             ELSE [c1 EXCEPT !.status = 200, !.threads = 1, !.sent = 1,
                             !.chunks = chunks,
                             !.response = ConsumeStream(chunks)]

\* add_thread without the check of lines 47-48: client['api_key'] on None
add_thread_no_check(client_id, content, chunks, remote) ==
    LET client == lookup_client(client_id)
        c0 == [Call("add_thread") EXCEPT !.content = content]
    IN  IF client = None
        THEN [c0 EXCEPT !.status = 500, !.error = "TypeError", !.decrypted = TRUE]
        ELSE forward_message(c0, client, client_id, chunks, remote)

\* lines 44-64
add_thread(client_id, content, chunks, remote) ==
    LET client == lookup_client(client_id)
        c0 == [Call("add_thread") EXCEPT !.content = content]
    IN  IF client = None
        THEN [c0 EXCEPT !.status = 404, !.error = "HTTPException",
                        !.response = "Client does not exist!"]
        ELSE forward_message(c0, client, client_id, chunks, remote)

AddThread ==
    /\ Running
    /\ \E content \in MsgContents, chunks \in Streams, remote \in RemoteOutcomes :
          fwd' = add_thread(ClientId, content, chunks, remote)
    /\ UNCHANGED <<chats, delivered, other, pc, idx, frame, drive, edits, store, clients, assistants,
                   supplied, tool, processed, fwdFailed, started, sleeps,
                   sleptFor, interrupted>>

\* lines 66-69
Summarize ==
    /\ Running
    /\ \E chunks \in Streams, remote \in RemoteOutcomes :
          fwd' = [add_thread(ClientId, SummarizePrompt, chunks, remote)
                      EXCEPT !.path = "summarize"]
    /\ UNCHANGED <<chats, delivered, other, pc, idx, frame, drive, edits, store, clients, assistants,
                   supplied, tool, processed, fwdFailed, started, sleeps,
                   sleptFor, interrupted>>

\* db.create_client / db.create_assistant: INSERT into a table with a
\* primary key
db_create_client(tbl, client_id, api_key) ==
    [c \in DOMAIN tbl \cup {client_id} |-> IF c = client_id THEN api_key ELSE tbl[c]]

db_create_assistant(tbl, assistant_id, client_id) ==
    [c \in DOMAIN tbl \cup {client_id} |-> IF c = client_id THEN assistant_id ELSE tbl[c]]

\* line 34: the name decrypted_api_key is bound nowhere in create_client, so
\* evaluating the argument raises NameError
session_in_create_client == "NameError"

\* create_client overwriting the row of a client that exists
create_client_no_check(client_id, api_key, iv) ==
    [call |-> [Call("create_client") EXCEPT !.status = 500, !.error = "NameError"],
     clients |-> db_create_client(clients, client_id, encrypt_api_key(api_key, iv)),
     assistants |-> assistants,
     supplied |-> db_create_client(supplied, client_id, api_key)]

\* lines 21-41: the answer and the tables after the call
create_client(client_id, api_key, iv) ==
    LET c0 == Call("create_client")
    IN  IF lookup_client(client_id) # None
        THEN [call |-> [c0 EXCEPT !.status = 409, !.error = "HTTPException",
                                  !.response = "Client already exists!"],
              clients |-> clients, assistants |-> assistants,
              supplied |-> supplied]
        ELSE LET encrypted_api_key == encrypt_api_key(api_key, iv)
                 stored == db_create_client(clients, client_id, encrypted_api_key)
                 given == db_create_client(supplied, client_id, api_key)
             IN  IF session_in_create_client = "NameError"
                 THEN [call |-> [c0 EXCEPT !.status = 500, !.error = "NameError"],
                       clients |-> stored, assistants |-> assistants,
                       supplied |-> given]
                 ELSE [call |-> [c0 EXCEPT !.status = 200,
                                           !.session_key = Some(api_key),
                                           !.assistant_calls = 1],
                       clients |-> stored,
                       assistants |-> db_create_assistant(assistants, "asst_2", client_id),
                       supplied |-> given]

CreateClient ==
    /\ Running
    /\ \E api_key \in ApiKeys, iv \in IVs :
          LET r == create_client(ClientId, api_key, iv)
          IN  /\ fwd' = r.call
              /\ clients' = r.clients
              /\ assistants' = r.assistants
              /\ supplied' = r.supplied
    /\ UNCHANGED <<chats, delivered, other, pc, idx, frame, drive, edits, store, tool, processed,
                   fwdFailed, started, sleeps, sleptFor, interrupted>>

Next ==
    \/ ProcessDocument
    \/ ForwardFail
    \/ ForwardSucceed
    \/ Sleep
    \/ RetrySleep
    \/ Interrupt
    \/ EditDoc
    \/ RegisterDocument

Spec == Init /\ [][Next]_vars

\* the forward primitive on both of its paths, with every bounded reply
NextForward ==
    \/ ProcessDocument
    \/ ForwardFail
    \/ ForwardStream
    \/ Sleep
    \/ RetrySleep
    \/ AddThread

SpecForward == Init /\ [][NextForward]_vars

\* two poller instances whose forwards succeed, registration and edits of
\* the documents
NextRace ==
    \/ ProcessDocument
    \/ ForwardSucceed
    \/ Sleep
    \/ EditDoc
    \/ RegisterDocument
    \/ OtherBegin
    \/ OtherComplete

SpecRace == Init /\ [][NextRace]_vars

\* the poller alone, never cancelled, on documents that do not change
NextLive ==
    \/ ProcessDocument
    \/ ForwardFail
    \/ ForwardSucceed
    \/ Sleep
    \/ RetrySleep

\* the last document of the list
LiveDoc == FileIds[Len(FileIds)]

\* the fetches and the record lookup of a document succeed
FetchOk(f) ==
    /\ ProcessDocument
    /\ FileIds[idx] = f
    /\ frame' = process_document_begin(f, "ok", "ok", "ok").frame

\* the forward of a document and the write of its record succeed
StoreOk(f) == ForwardSucceed /\ frame.file = f /\ frame'.written

\* the event loop runs the poller whenever it can run, its sleeps end
\* normally again and again, and for the last document the fetch, the
\* forward and the store write succeed again and again when attempted;
\* nothing is assumed of the other documents
SpecLive ==
    /\ Init
    /\ [][NextLive]_vars
    /\ WF_vars(NextLive)
    /\ SF_vars(Sleep /\ pc' = "loop")
    /\ SF_vars(RetrySleep /\ pc' = "loop")
    /\ SF_vars(FetchOk(LiveDoc))
    /\ SF_vars(StoreOk(LiveDoc))

\* the http endpoints of server.py
NextServer ==
    \/ CreateClient
    \/ AddThread
    \/ Summarize

SpecServer == Init /\ [][NextServer]_vars

(***************************************************************************)
(* tools.py.  A text is a sequence of characters; the words of the tool    *)
(* grammar (tool names, filename, content, hours, topic) and the path and  *)
(* block words are written as one symbol each.                             *)
(***************************************************************************)
AT == "@"
DQ == "\""
SQ == "'"
CO == ":"
SP == " "
NL == "\n"

\* ["\']
IsQuote(a) == a \in {DQ, SQ}
\* \s
IsSpace(a) == a \in {SP, NL}
\* [:\s]
IsSep(a) == a = CO \/ IsSpace(a)
\* sys.int_info.default_max_str_digits of the interpreter (3.11 and the
\* patched 3.7-3.10): the longest numeral int() converts
MaxStrDigits == 4300
\* one symbol for a numeral of MaxStrDigits + 1 nines
LongNumeral == "9{4301}"
\* the number of digits a digit symbol stands for
NumeralLength(a) == IF a = LongNumeral THEN MaxStrDigits + 1 ELSE 1

\* \d
IsDigit(a) == a \in {"2", "4", "8", LongNumeral}
\* \w: letters, digits and the underscore
IsWord(a) == a \notin {AT, DQ, SQ, CO, SP, NL, "/", ".", "-"}

\* the positions of a text whose character is in a class
Words(text) == {i \in 1..Len(text) : IsWord(text[i])}
Digits(text) == {i \in 1..Len(text) : IsDigit(text[i])}
Seps(text) == {i \in 1..Len(text) : IsSep(text[i])}
NonQuotes(text) == {i \in 1..Len(text) : ~IsQuote(text[i])}

\* the last index of the longest run of positions of a class that starts
\* at s (s - 1 when s is not in the class): a greedy repetition
RECURSIVE RunEnd(_, _)
RunEnd(s, class) == IF s \in class THEN RunEnd(s + 1, class) ELSE s - 1

\* @["\']?(\w+)["\']? tried at position i: where group 1 starts, 0 if the
\* pattern does not match there
MarkerAt(text, i) ==
    IF text[i] # AT THEN 0
    ELSE IF i + 2 <= Len(text) /\ IsQuote(text[i + 1]) /\ IsWord(text[i + 2]) THEN i + 2
    ELSE IF i + 1 <= Len(text) /\ IsWord(text[i + 1]) THEN i + 1
    ELSE 0

\* re.search: the leftmost position at which the pattern matches
RECURSIVE SearchMarker(_, _)
SearchMarker(text, i) ==
    IF i > Len(text) THEN None
    ELSE IF MarkerAt(text, i) # 0
         THEN Some(SubSeq(text, MarkerAt(text, i),
                          RunEnd(MarkerAt(text, i), Words(text))))
         ELSE SearchMarker(text, i + 1)

\* the rightmost match instead of the leftmost
RECURSIVE SearchMarkerLast(_, _)
SearchMarkerLast(text, i) ==
    IF i < 1 THEN None
    ELSE IF MarkerAt(text, i) # 0
         THEN Some(SubSeq(text, MarkerAt(text, i),
                          RunEnd(MarkerAt(text, i), Words(text))))
         ELSE SearchMarkerLast(text, i - 1)

detect_tool_invocation_last(content) == SearchMarkerLast(content, Len(content))

\* lines 15-27
detect_tool_invocation(content) == SearchMarker(content, 1)

ShortTexts ==
    UNION {[1..n -> {AT, DQ, SQ, SP, "a", "b"}] : n \in 0..MaxTextLen}

\* a caller inspects a text for a tool marker; the module keeps no state
\* between calls, so a call starts from the idle record
DetectTool ==
    /\ tool = NoTool
    /\ \E text \in ShortTexts :
          tool' = [NoTool EXCEPT !.op = "detect", !.text = text,
                                 !.name = detect_tool_invocation(text)]
    /\ UNCHANGED <<chats, delivered, other, pc, idx, frame, drive, edits, store, clients, assistants,
                   supplied, processed, fwdFailed, started, sleeps, sleptFor,
                   interrupted, fwd>>

\* re.IGNORECASE: the spellings of a label word
Spellings(label) ==
    CASE label = "filename" -> {"filename", "Filename"}
      [] label = "content" -> {"content", "Content"}
      [] label = "hours" -> {"hours", "Hours", "hour"}
      [] label = "topic" -> {"topic", "Topic"}

\* label[:\s]+["\']?([^"\']+)["\']? tried at the label at position i: where
\* group 1 starts, 0 if the pattern does not match there.  The separators
\* and the optional quote are greedy; when the quote is followed by no
\* token the matcher gives one separator back and the group starts on it.
TokenAt(text, i, label) ==
    LET r == RunEnd(i + 1, Seps(text))
        p == r + 1
    IN  IF text[i] \notin Spellings(label) \/ r < i + 1 THEN 0
        ELSE IF p + 1 <= Len(text) /\ IsQuote(text[p]) /\ ~IsQuote(text[p + 1]) THEN p + 1
        ELSE IF p <= Len(text) /\ ~IsQuote(text[p]) THEN p
        ELSE IF r >= i + 2 THEN r
        ELSE 0

RECURSIVE SearchToken(_, _, _)
SearchToken(text, i, label) ==
    IF i > Len(text) THEN None
    ELSE IF TokenAt(text, i, label) # 0
         THEN Some(SubSeq(text, TokenAt(text, i, label),
                          RunEnd(TokenAt(text, i, label), NonQuotes(text))))
         ELSE SearchToken(text, i + 1, label)

\* the positions after the opening quote p that can close the block: .+?
\* takes at least one character
Closers(text, p) == {j \in (p + 2)..Len(text) : IsQuote(text[j])}

\* content[:\s]+["\'](.+?)["\'] tried at the label at position i: the
\* position of the opening quote, 0 if the pattern does not match there
BlockAt(text, i) ==
    LET p == RunEnd(i + 1, Seps(text)) + 1
    IN  IF /\ text[i] \in Spellings("content")
           /\ p >= i + 2
           /\ p <= Len(text)
           /\ IsQuote(text[p])
           /\ Closers(text, p) # {}
        THEN p
        ELSE 0

\* .+? is lazy: the block ends before the first quote that can close it
RECURSIVE SearchBlock(_, _)
SearchBlock(text, i) ==
    IF i > Len(text) THEN None
    ELSE IF BlockAt(text, i) # 0
         THEN LET p == BlockAt(text, i)
                  e == CHOOSE j \in Closers(text, p) : \A o \in Closers(text, p) : j <= o
              IN  Some(SubSeq(text, p + 1, e - 1))
         ELSE SearchBlock(text, i + 1)

\* line 297
DefaultFilename == <<"docs", "/", "ONBOARDING", ".", "md">>

\* lines 50-56 (the message is the filename again and is left out)
handle_create_file(filename, content) ==
    [tool |-> "create_file", status |-> "ready", filename |-> filename,
     content |-> content]

\* the branch without the test of line 301
create_file_unchecked(content) ==
    LET filename_match == SearchToken(content, 1, "filename")
        content_match == SearchBlock(content, 1)
        filename == IF filename_match # None THEN filename_match[1] ELSE DefaultFilename
        file_content == IF content_match # None THEN content_match[1] ELSE <<>>
    IN  handle_create_file(filename, file_content)

\* lines 291-313
create_file(content) ==
    LET filename_match == SearchToken(content, 1, "filename")
        content_match == SearchBlock(content, 1)
        filename == IF filename_match # None THEN filename_match[1] ELSE DefaultFilename
        file_content == IF content_match # None THEN content_match[1] ELSE <<>>
    IN  IF Falsy(file_content)
        THEN [tool |-> "create_file", status |-> "pending_content",
              filename |-> filename]
        ELSE handle_create_file(filename, file_content)

\* the texts of create_file invocations: a marker, then the two labelled
\* parts in either order, each present or not
Path == <<"docs", "/", "a", ".", "md">>
Quoted(q, body) == <<q>> \o body \o <<q>>
MarkerForms == {<<AT, "create_file">>, <<AT>> \o Quoted(DQ, <<"create_file">>)}
FilenameKinds == {"none", "double", "single", "bare"}
BlockKinds == {"none", "plain", "lines", "apostrophe", "empty", "bare"}
FilenamePart(kind) ==
    CASE kind = "none" -> <<>>
      [] kind = "double" -> <<SP, "filename", CO, SP>> \o Quoted(DQ, Path)
      [] kind = "single" -> <<SP, "Filename", CO>> \o Quoted(SQ, Path)
      [] kind = "bare" -> <<SP, "filename", CO, SP>> \o Path
BlockText(kind) ==
    CASE kind = "plain" -> <<"hello">>
      [] kind = "lines" -> <<"hello", NL, "hello">>
      [] kind = "apostrophe" -> <<"it", SQ, "s">>
      [] OTHER -> <<>>
BlockPart(kind) ==
    CASE kind = "none" -> <<>>
      [] kind = "bare" -> <<SP, "content", CO, SP, "hello">>
      [] OTHER -> <<SP, "content", CO, SP>> \o Quoted(DQ, BlockText(kind))
CreateFileParts ==
    [marker : MarkerForms, filename : FilenameKinds, block : BlockKinds,
     order : {"filename first", "content first"}]
CreateFileText(parts) ==
    parts.marker \o
    (IF parts.order = "filename first"
     THEN FilenamePart(parts.filename) \o BlockPart(parts.block)
     ELSE BlockPart(parts.block) \o FilenamePart(parts.filename))

\* hours?[:\s]+(\d+) tried at the label at position i: where group 1
\* starts, 0 if the pattern does not match there
HoursAt(text, i) ==
    LET p == RunEnd(i + 1, Seps(text)) + 1
    IN  IF text[i] \in Spellings("hours") /\ p >= i + 2 /\ p \in Digits(text)
        THEN p
        ELSE 0

RECURSIVE SearchHours(_, _)
SearchHours(text, i) ==
    IF i > Len(text) THEN None
    ELSE IF HoursAt(text, i) # 0
         THEN Some(SubSeq(text, HoursAt(text, i),
                          RunEnd(HoursAt(text, i), Digits(text))))
         ELSE SearchHours(text, i + 1)

DigitValue(a) == CASE a = "2" -> 2 [] a = "4" -> 4 [] a = "8" -> 8 [] OTHER -> 9

\* the number of digits of a run
RECURSIVE digit_count(_)
digit_count(digits) ==
    IF digits = <<>> THEN 0
    ELSE NumeralLength(digits[1]) + digit_count(Tail(digits))

\* int() raises ValueError on a numeral longer than the limit
int_raises(digits) == digit_count(digits) > MaxStrDigits

\* int() of a run of digits
RECURSIVE int(_)
int(digits) ==
    IF digits = <<>> THEN 0
    ELSE 10 * int(SubSeq(digits, 1, Len(digits) - 1)) + DigitValue(digits[Len(digits)])

\* line 318
DefaultHours == 24

\* the label is ignored
extract_hours_default(content) == DefaultHours

\* lines 317-318
extract_hours(content) ==
    LET hours_match == SearchHours(content, 1)
    IN  IF hours_match # None THEN int(hours_match[1]) ELSE DefaultHours

\* datetime.now() of line 87, in hours
Now == 100

\* what the backend returns for an assistant: each memory has a source tag
\* and an ingested_at that is missing, an ISO time (in hours) or unparsable
TimeStamps == {Now - 24, Now - 2, Now - 1, Now + 1}
SourceTags == {"telegram", "Drive", "git", "GitHub", "slack"}
Sources == {Some(tag) : tag \in SourceTags} \cup {None}
MemoryLists ==
    LET Stamps == {[kind |-> "iso", t |-> t] : t \in TimeStamps}
                     \cup {[kind |-> "none", t |-> 0], [kind |-> "bad", t |-> 0]}
        Memories == [source : Sources, ingested_at : Stamps]
    IN  UNION {[1..n -> Memories] : n \in 0..MaxMemories}

\* str.lower()
lower(source) ==
    CASE source = "Drive" -> "drive"
      [] source = "GitHub" -> "github"
      [] source = "Auth" -> "auth"
      [] OTHER -> source

\* metadata.get("source", "unknown") of line 100
source_of(memory) == IF memory.source = None THEN "unknown" ELSE memory.source[1]

\* the first test of the chain decides alone
bucket_of_first(source) == IF lower(source) = "slack" THEN "none" ELSE "telegram"

\* lines 113-118
bucket_of(source) ==
    CASE lower(source) = "telegram" -> "telegram"
      [] lower(source) = "drive" -> "drive"
      [] lower(source) \in {"github", "git"} -> "github"
      [] OTHER -> "none"

\* line 106
in_window(ingested_at, cutoff_time) == ingested_at >= cutoff_time

\* a memory without a readable time is kept
stamp_passes_unread(stamp, cutoff_time) ==
    stamp.kind # "iso" \/ in_window(stamp.t, cutoff_time)

\* lines 103-106 and 119-121: a missing ingested_at fails the test of line
\* 103, an unparsable one raises ValueError, which line 119 swallows
stamp_passes(stamp, cutoff_time) ==
    stamp.kind = "iso" /\ in_window(stamp.t, cutoff_time)

\* lines 97-121, from memory i on
RECURSIVE group_memories(_, _, _, _)
group_memories(memories, i, cutoff_time, recent_context) ==
    IF i > Len(memories) THEN recent_context
    ELSE LET memory == memories[i]
             stamp == memory.ingested_at
             b == bucket_of(source_of(memory))
             memory_entry == [memory_id |-> i, ingested_at |-> stamp.t]
         IN  IF stamp_passes(stamp, cutoff_time) /\ b # "none"
             THEN group_memories(memories, i + 1, cutoff_time,
                      [recent_context EXCEPT ![b] = Append(@, memory_entry)])
             ELSE group_memories(memories, i + 1, cutoff_time, recent_context)

\* the [:5] of lines 153, 159 and 165
MaxShown == 5

\* context[bucket][:5]
top(items) == SubSeq(items, 1, IF Len(items) < MaxShown THEN Len(items) ELSE MaxShown)

\* lines 151-155, 157-161, 163-167: the heading with the item count, then
\* one line per shown item
section(context, bucket) ==
    IF Len(context[bucket]) > 0
    THEN <<[bucket |-> bucket, count |-> Len(context[bucket]),
            items |-> top(context[bucket])]>>
    ELSE <<>>

\* lines 141-172: the summary, section by section
format_recent_context(context, hours) ==
    [hours |-> hours,
     sections |-> section(context, "telegram") \o section(context, "drive")
                      \o section(context, "github"),
     no_activity |-> /\ Len(context["telegram"]) = 0
                     /\ Len(context["drive"]) = 0
                     /\ Len(context["github"]) = 0]

\* lines 86-132: the body of the try on a list of well-formed memories
recent_context_of(hours, memories) ==
    LET cutoff_time == Now - hours
        recent_context == [telegram |-> <<>>, drive |-> <<>>, github |-> <<>>]
        grouped == group_memories(memories, 1, cutoff_time, recent_context)
    IN  [tool |-> "get_recent_context", status |-> "success", hours |-> hours,
         context |-> grouped,
         formatted |-> format_recent_context(grouped, hours)]

\* what get_memories does: it returns a list of memories, is missing from
\* the client (AttributeError), raises, or returns a list with an entry
\* that is no mapping with a metadata mapping
Backends(lists) ==
    {[kind |-> "ok", memories |-> m] : m \in lists} \cup
    {[kind |-> k, memories |-> <<>>] : k \in {"missing", "raises", "malformed"}}

\* lines 79-84 and 190-194: the list the handler goes on with
memories_of(backend) == IF backend.kind = "missing" THEN <<>> ELSE backend.memories

\* lines 71-138: the except of line 133 turns what get_memories raises
\* (line 80) and the AttributeError of lines 99-100 on a malformed entry
\* into a result
handle_get_recent_context(hours, backend) ==
    IF backend.kind \in {"raises", "malformed"}
    THEN [tool |-> "get_recent_context", status |-> "error", error |-> backend.kind]
    ELSE recent_context_of(hours, memories_of(backend))

\* lines 315-322: line 318 is in no try, the ValueError of int() leaves
\* execute_tool
get_recent_context(content, backend) ==
    LET hours_match == SearchHours(content, 1)
    IN  IF hours_match # None /\ int_raises(hours_match[1])
        THEN [tool |-> "get_recent_context", raised |-> "ValueError"]
        ELSE handle_get_recent_context(extract_hours(content), backend)

\* the texts of get_recent_context invocations
HoursKinds ==
    {"none", "two digits", "one digit", "singular", "no colon", "tight",
     "word", "negative", "second label", "long"}
HoursPart(kind) ==
    CASE kind = "none" -> <<>>
      [] kind = "two digits" -> <<SP, "hours", CO, SP, "4", "8">>
      [] kind = "one digit" -> <<SP, "Hours", CO, SP, "2">>
      [] kind = "singular" -> <<SP, "hour", CO, SP, "2">>
      [] kind = "no colon" -> <<SP, "hours", SP, "2">>
      [] kind = "tight" -> <<SP, "hours", CO, "2">>
      [] kind = "word" -> <<SP, "hours", CO, SP, "soon">>
      [] kind = "negative" -> <<SP, "hours", CO, SP, "-", "2">>
      [] kind = "long" -> <<SP, "hours", CO, SP, LongNumeral>>
      [] kind = "second label" -> <<SP, "hours", CO, SP, "soon", SP, "hours", CO, SP, "8">>
RecentContextText(kind) == <<AT, "get_recent_context">> \o HoursPart(kind)

\* the memories[:10] of line 233
MaxNodes == 10

\* lines 239-244: the node list a lowered source goes to
node_list_of(source) ==
    CASE lower(source) = "telegram" -> "Telegram"
      [] lower(source) = "drive" -> "Drive"
      [] lower(source) \in {"github", "git"} -> "Code"
      [] OTHER -> "none"

\* lines 233-244: the enumerate() indices of the memories of one node list
nodes(memories, list) ==
    LET n == IF Len(memories) < MaxNodes THEN Len(memories) ELSE MaxNodes
        InList(i) == node_list_of(source_of(memories[i + 1])) = list
    IN  SelectSeq([k \in 1..n |-> k - 1], InList)

\* lines 247-260: the edge to a category, then one edge per node of it
category(memories, list, label) ==
    LET ids == nodes(memories, list)
    IN  IF ids # <<>>
        THEN <<[from |-> "Start", to |-> <<list>>, label |-> <<label>>]>> \o
             [k \in 1..Len(ids) |->
                 [from |-> list, to |-> <<"Node", ids[k]>>,
                  label |-> memories[ids[k] + 1].content]]
        ELSE <<>>

\* every graph ends with the NoData edge
build_mermaid_graph_nodata(topic, memories) ==
    [start |-> topic,
     edges |-> category(memories, "Telegram", "Telegram Discussions")
                   \o category(memories, "Drive", "Drive Documents")
                   \o category(memories, "Code", "Code Implementation")
                   \o <<[from |-> "Start", to |-> <<"NoData">>,
                         label |-> <<"No related data found">>]>>]

\* lines 221-265: the graph as its Start node and its edges, in order
build_mermaid_graph(topic, memories) ==
    [start |-> topic,
     edges |-> category(memories, "Telegram", "Telegram Discussions")
                   \o category(memories, "Drive", "Drive Documents")
                   \o category(memories, "Code", "Code Implementation")
                   \o (IF /\ nodes(memories, "Telegram") = <<>>
                          /\ nodes(memories, "Drive") = <<>>
                          /\ nodes(memories, "Code") = <<>>
                       THEN <<[from |-> "Start", to |-> <<"NoData">>,
                               label |-> <<"No related data found">>]>>
                       ELSE <<>>)]

\* str.lower() of a text
lower_text(text) == [k \in 1..Len(text) |-> lower(text[k])]

\* needle in text
Contains(text, needle) ==
    \E k \in 0..(Len(text) - Len(needle)) :
        SubSeq(text, k + 1, k + Len(needle)) = needle

\* lines 196-212: the body of the try on a list of well-formed memories
related_graph(topic, memories) ==
    LET Related(memory) == Contains(lower_text(memory.content), lower_text(topic))
        related_memories == SelectSeq(memories, Related)
    IN  [tool |-> "generate_mermaid_graph", status |-> "success",
         topic |-> topic,
         mermaid |-> build_mermaid_graph(topic, related_memories)]

\* str.replace(old, ""): every occurrence of old, left to right
RECURSIVE remove(_, _)
remove(text, old) ==
    IF Len(text) < Len(old) \/ old = <<>> THEN text
    ELSE IF SubSeq(text, 1, Len(old)) = old
         THEN remove(SubSeq(text, Len(old) + 1, Len(text)), old)
         ELSE <<text[1]>> \o remove(Tail(text), old)

\* str.strip()
RECURSIVE strip(_)
strip(text) ==
    IF text = <<>> THEN text
    ELSE IF IsSpace(text[1]) THEN strip(Tail(text))
    ELSE IF IsSpace(text[Len(text)]) THEN strip(SubSeq(text, 1, Len(text) - 1))
    ELSE text

\* lines 326-327
extract_topic(tool_name, content) ==
    LET topic_match == SearchToken(content, 1, "topic")
    IN  IF topic_match # None THEN topic_match[1]
        ELSE strip(remove(content, <<AT>> \o tool_name))

\* lines 188-218: the except of line 213 turns what get_memories raises
\* (line 191) and the AttributeError of line 199 on a malformed entry into
\* a result
handle_generate_mermaid_graph(topic, backend) ==
    IF backend.kind \in {"raises", "malformed"}
    THEN [tool |-> "generate_mermaid_graph", status |-> "error", error |-> backend.kind]
    ELSE related_graph(topic, memories_of(backend))

\* lines 324-331
generate_mermaid_graph(tool_name, content, backend) ==
    handle_generate_mermaid_graph(extract_topic(tool_name, content), backend)

\* the texts of generate_mermaid_graph invocations: the marker in each form
\* the parser accepts, then a topic label, free words or nothing
TopicPart(kind) ==
    CASE kind = "none" -> <<>>
      [] kind = "label" -> <<SP, "topic", CO, SP>> \o Quoted(DQ, <<"Auth">>)
      [] kind = "bare label" -> <<SP, "Topic", CO, SP, "auth">>
      [] kind = "words" -> <<SP, "auth", SP>>
GraphParts ==
    [marker : {<<AT, "generate_mermaid_graph">>,
               <<AT>> \o Quoted(DQ, <<"generate_mermaid_graph">>),
               <<AT>> \o Quoted(SQ, <<"generate_mermaid_graph">>)},
     topic : {"none", "label", "bare label", "words"}]
GraphText(parts) == parts.marker \o TopicPart(parts.topic)

\* the memories a graph is drawn from: a source tag and a content
GraphMemoryLists ==
    LET GraphMemories ==
            [source : {Some("telegram"), Some("Drive"), Some("slack"), None},
             content : {<<"auth", SP, "flow">>, <<"billing">>}]
    IN  UNION {[1..n -> GraphMemories] : n \in 0..MaxMemories}

\* the lists handed to build_mermaid_graph, longer than it draws
RelatedLists ==
    UNION {[1..n -> [source : {Some("telegram"), Some("slack")},
                     content : {<<"auth">>}]] : n \in 0..MaxRelated}

\* lines 333-338
unknown_tool(tool_name) ==
    [tool |-> tool_name, status |-> "error",
     error |-> <<"Unknown tool: ">> \o tool_name]

\* lines 268-338
execute_tool(tool_name, content, backend) ==
    CASE tool_name = <<"create_file">> -> create_file(content)
      [] tool_name = <<"get_recent_context">> -> get_recent_context(content, backend)
      [] tool_name = <<"generate_mermaid_graph">> -> generate_mermaid_graph(tool_name, content, backend)
      [] OTHER -> unknown_tool(tool_name)

\* whether the call reaches get_memories (lines 80 and 191)
queries_backend(tool_name, content) ==
    \/ tool_name = <<"generate_mermaid_graph">>
    \/ /\ tool_name = <<"get_recent_context">>
       /\ "raised" \notin DOMAIN get_recent_context(content, [kind |-> "missing", memories |-> <<>>])

\* the texts that name no tool of the module
UnknownTexts == {<<AT, "deploy">>, <<AT>> \o Quoted(DQ, <<"Create_File">>) \o <<SP, "hours", CO, SP, "2">>}

\* a caller finds a marker in a text and runs the tool it names
Execute(text, parts, backend) ==
    LET name == detect_tool_invocation(text)
    IN  /\ name # None
        /\ tool' = [NoTool EXCEPT !.op = "execute", !.text = text,
                                  !.name = name, !.parts = parts,
                                  !.memories = backend.memories,
                                  !.backend = backend.kind,
                                  !.queried = queries_backend(name[1], text),
                                  !.result = execute_tool(name[1], text, backend)]
        /\ UNCHANGED <<chats, delivered, other, pc, idx, frame, drive, edits, store, clients, assistants,
                       supplied, processed, fwdFailed, started, sleeps,
                       sleptFor, interrupted, fwd>>

ExecuteCreateFile ==
    /\ tool = NoTool
    /\ \E parts \in CreateFileParts : Execute(CreateFileText(parts), parts, [kind |-> "ok", memories |-> <<>>])

ExecuteRecentContext ==
    /\ tool = NoTool
    /\ \E kind \in HoursKinds, backend \in Backends(MemoryLists) :
          Execute(RecentContextText(kind), [hours |-> kind], backend)

ExecuteMermaidGraph ==
    /\ tool = NoTool
    /\ \E parts \in GraphParts, backend \in Backends(GraphMemoryLists) :
          Execute(GraphText(parts), parts, backend)

ExecuteUnknown ==
    /\ tool = NoTool
    /\ \E text \in UnknownTexts, backend \in Backends({<<>>}) :
          Execute(text, <<>>, backend)

\* a caller draws the graph of a list of related memories
BuildGraph ==
    /\ tool = NoTool
    /\ \E memories \in RelatedLists :
          tool' = [NoTool EXCEPT
                      !.op = "graph", !.memories = memories,
                      !.result = [status |-> "success", topic |-> <<"auth">>,
                                  mermaid |-> build_mermaid_graph(<<"auth">>, memories)]]
    /\ UNCHANGED <<chats, delivered, other, pc, idx, frame, drive, edits, store, clients, assistants,
                   supplied, processed, fwdFailed, started, sleeps, sleptFor,
                   interrupted, fwd>>

\* the contexts handed to format_recent_context: one bucket of any length
\* up to MaxBucket, the two others empty or with one entry
Contexts ==
    LET BucketNames == {"telegram", "drive", "github"}
        EntryTimes == {Now - 2, Now - 1}
        LongBuckets ==
            UNION {{[k \in 1..n |-> [memory_id |-> k, ingested_at |-> t[k]]] :
                       t \in [1..n -> EntryTimes]} : n \in 0..MaxBucket}
        ShortBuckets ==
            {<<>>, <<[memory_id |-> MaxBucket + 1, ingested_at |-> Now - 1]>>}
    IN  {[b \in BucketNames |-> IF b = long THEN items ELSE rest[b]] :
            long \in BucketNames, items \in LongBuckets,
            rest \in [BucketNames -> ShortBuckets]}

\* a caller renders a grouped context
FormatContext ==
    /\ tool = NoTool
    /\ \E context \in Contexts :
          tool' = [NoTool EXCEPT
                      !.op = "format",
                      !.result = [status |-> "success", hours |-> DefaultHours,
                                  context |-> context,
                                  formatted |-> format_recent_context(context, DefaultHours)]]
    /\ UNCHANGED <<chats, delivered, other, pc, idx, frame, drive, edits, store, clients, assistants,
                   supplied, processed, fwdFailed, started, sleeps, sleptFor,
                   interrupted, fwd>>

\* the caller has consumed the result
ToolReturn ==
    /\ tool # NoTool
    /\ tool' = NoTool
    /\ UNCHANGED <<chats, delivered, other, pc, idx, frame, drive, edits, store, clients, assistants,
                   supplied, processed, fwdFailed, started, sleeps, sleptFor,
                   interrupted, fwd>>

NextTools ==
    \/ DetectTool
    \/ ExecuteCreateFile
    \/ ExecuteRecentContext
    \/ FormatContext
    \/ ExecuteMermaidGraph
    \/ ExecuteUnknown
    \/ BuildGraph
    \/ ToolReturn

SpecTools == Init /\ [][NextTools]_vars

(***************************************************************************)
(* bot.py and the chats table of db.py.  An update is None or a message;   *)
(* a message has a text (None for a photo, a sticker, ...), its chat and   *)
(* its sender: from_user, sender_chat, or both.                            *)
(***************************************************************************)
Updates ==
    LET Chats == [id : {"-1001", "-1002"}, title : {"team"}]
        Texts == {None, Some(""), Some("hi"), Some("ok")}
        \* the senders Telegram gives a group message: a user, a user
        \* posting on behalf of a chat, or a chat alone
        Senders ==
            { [from_user |-> Some([username |-> "alice"]),
               sender_chat |-> None],
              [from_user |-> Some([username |-> "alice"]),
               sender_chat |-> Some([username |-> "news"])],
              [from_user |-> None,
               sender_chat |-> Some([username |-> "news"])] }
        Messages ==
            { [text |-> t, chat |-> c, from_user |-> n.from_user,
               sender_chat |-> n.sender_chat] :
                 t \in Texts, c \in Chats, n \in Senders }
    IN  {[message |-> None]} \cup {[message |-> Some(m)] : m \in Messages}

\* db.py lines 100-108: a plain INSERT into chats.  execute binds the three
\* parameters first: sqlite3 binds None, int, float, str, bytes and the
\* types an adapter is registered for, and raises ProgrammingError for any
\* other value (bound says whether every parameter could be bound).  The
\* INSERT of a chat_id the table already holds violates the PRIMARY KEY of
\* line 33 and raises IntegrityError; the table is unchanged.
create_thread(table, chat_id, channel_name, chat, bound) ==
    IF ~bound
    THEN [raised |-> Some("ProgrammingError"), chats |-> table]
    ELSE IF chat_id \in DOMAIN table
    THEN [raised |-> Some("IntegrityError"), chats |-> table]
    ELSE [raised |-> None,
          chats |-> [k \in DOMAIN table \cup {chat_id} |->
                        IF k = chat_id
                        THEN [channel_name |-> channel_name, chat |-> chat]
                        ELSE table[k]]]

\* bot.py lines 23-31.  msg.chat, an object of the telegram library, is what
\* the call passes as channel_name.
log_thread(table, update, bound) ==
    LET msg == update.message IN
    IF msg = None \/ msg[1].text = None \/ msg[1].text = Some("")
    THEN [called |-> FALSE, raised |-> None, chats |-> table]
    ELSE
      LET chat   == msg[1].chat
          sender == IF msg[1].from_user # None
                    THEN msg[1].from_user[1]
                    ELSE msg[1].sender_chat[1]
          thread == sender.username \o ": " \o msg[1].text[1]
          r      == create_thread(table, chat.id, msg[1].chat, thread, bound)
      IN  [called |-> TRUE, raised |-> r.raised, chats |-> r.chats]

\* run_polling hands one update to log_thread; an exception of the handler
\* is logged by the library and the next update is handled.  Whether sqlite3
\* can bind the chat object is drawn: its class is outside this repository,
\* and db.py registers no adapter.
LogThread ==
    /\ Len(delivered) < MaxUpdates
    /\ \E update \in Updates, bound \in BOOLEAN :
          LET r == log_thread(chats, update, bound) IN
          /\ chats' = r.chats
          /\ delivered' = Append(delivered,
                 [update |-> update, called |-> r.called,
                  raised |-> r.raised])
    /\ UNCHANGED <<other, pc, idx, frame, drive, edits, store, clients,
                   assistants, supplied, tool, processed, fwdFailed, started,
                   sleeps, sleptFor, interrupted, fwd>>

NextBot == LogThread

SpecBot == Init /\ [][NextBot]_vars

(***************************************************************************)
(* Properties                                                              *)
(***************************************************************************)
Fetched == frame.done /\ frame.metadata # None /\ frame.content # None

\* C1: a call of process_document that fetched metadata and content submits
\* no message and calls no store write when the hash of the content equals
\* the stored content_hash; when it differs, or no record exists, and the
\* forward succeeds, it submits exactly one message and calls exactly one
\* store write: an insert if no record existed, an update otherwise.
C1_ForwardOnlyOnChange ==
    Fetched =>
        LET h == compute_content_hash(frame.content[1])
            same == frame.before # None /\ frame.before[1].content_hash = h
        IN  /\ same => frame.sent = 0 /\ frame.writes = 0 /\ frame.write = "none"
            /\ (~same /\ frame.fwd = "ok") =>
                  /\ frame.sent = 1
                  /\ frame.writes = 1
                  /\ frame.write = IF frame.before = None THEN "insert"
                                                           ELSE "update"

C1_Witness ==
    /\ Fetched
    /\ frame.fwd = "ok"
    /\ frame.before # None
    /\ frame.write = "update"
    /\ frame.sent = 1

\* C2: when the forward of a document fails in a cycle, every later document
\* of the list has been processed by the time the poller sleeps.
C2_LaterDocStillProcessed ==
    pc \in {"sleep", "retry_sleep"} =>
        \A i \in 1..Len(FileIds), j \in 1..Len(FileIds) :
            (i < j /\ FileIds[i] \in fwdFailed) => FileIds[j] \in processed

C2_Witness ==
    /\ pc = "sleep"
    /\ FileIds[1] \in fwdFailed
    /\ FileIds[2] \in processed
    /\ frame.file = FileIds[2]

\* C3: no error of one document's handling abandons the cycle: whenever the
\* poller sleeps, every document of the list was processed in the cycle.
C3_EveryDocProcessedEachCycle ==
    pc \in {"sleep", "retry_sleep"} => processed = Files

\* C4: poll_documents ends only on an external interrupt.
C4_LoopEndsOnlyOnInterrupt ==
    pc \in {"stopped", "escaped"} => interrupted

\* C5: the classification depends only on the stored record and the fetched
\* content: no record gives New, a record with the hash of the content gives
\* Unchanged, a record with any other hash, the empty one included, Changed.
C5_Classification ==
    frame.class # "none" =>
        LET h == compute_content_hash(frame.content[1])
        IN  /\ frame.before = None => frame.class = "New"
            /\ (frame.before # None /\ frame.before[1].content_hash = h)
                   => frame.class = "Unchanged"
            /\ (frame.before # None /\ frame.before[1].content_hash # h)
                   => frame.class = "Changed"

C5_Witness ==
    /\ frame.class = "Changed"
    /\ frame.before # None
    /\ frame.before[1].content_hash = ""

\* C6: a document whose fetched content is the empty string is hashed and
\* classified like any other content.
C6_EmptyContentClassified ==
    (Fetched /\ frame.content = Some("")) =>
        frame.class \in {"New", "Changed", "Unchanged"}

\* C7: every stored record has an empty content_hash or the hash of its own
\* last_content.
C7_HashMatchesContent ==
    \A f \in DOMAIN store :
        \/ store[f].content_hash = ""
        \/ store[f].content_hash = compute_content_hash(store[f].last_content)

C7_Witness ==
    /\ frame.done
    /\ frame.write = "update"
    /\ frame.written
    /\ frame.before[1].content_hash # ""
    /\ store[frame.file].content_hash # frame.before[1].content_hash

\* C8: after a successful forward of a Changed document the record holds the
\* hash, the content and the modification time fetched in that call.
C8_RecordEqualsFetched ==
    (frame.done /\ frame.class = "Changed" /\ frame.fwd = "ok" /\ frame.written) =>
        /\ store[frame.file].content_hash = compute_content_hash(frame.content[1])
        /\ store[frame.file].last_content = frame.content[1]
        /\ store[frame.file].last_modified = frame.metadata[1].modifiedTime

\* C9: every cycle but the first begins after exactly one completed sleep of
\* the configured interval since the previous cycle ended, whether that
\* cycle completed or was aborted.
C9_SleepBetweenCycles ==
    (started /\ pc \in {"loop", "forward"}) =>
        sleeps = 1 /\ sleptFor = Interval

C9_Witness ==
    /\ started
    /\ pc = "loop"
    /\ idx = 1
    /\ frame.file = FileIds[1]
    /\ frame.class = "none"
    /\ sleeps = 1

IsContent(c) == c.type = "content_streaming"

RECURSIVE Concat(_)
Concat(cs) ==
    IF cs = <<>> THEN ""
    ELSE Concat(SubSeq(cs, 1, Len(cs) - 1)) \o cs[Len(cs)].content

\* C10: the response of the forward primitive is the concatenation, in
\* arrival order, of the content of the fragments of the content type.
C10_ResponseIsContentConcat ==
    (fwd.path = "drive" \/ (fwd.path = "add_thread" /\ fwd.status = 200)) =>
        fwd.response = Concat(SelectSeq(fwd.chunks, IsContent))

C10_Witness ==
    /\ fwd.path = "add_thread"
    /\ fwd.status = 200
    /\ fwd.chunks = <<[type |-> "status", content |-> "x"],
                      [type |-> "content_streaming", content |-> "y"]>>
    /\ fwd.response = "y"

\* C11: forwarding for a client that has a stored key but no assistant ends
\* in a configuration error of its own, not in the answer of an unclassified
\* failure, and creates no thread and submits no message.
C11_MissingAssistantIsConfigError ==
    /\ (fwd.path = "add_thread" /\ fwd.had_client /\ ~fwd.had_assistant) =>
          /\ fwd.status \notin {200, 500}
          /\ fwd.threads = 0
          /\ fwd.sent = 0
    /\ (/\ frame.done
        /\ frame.class \in {"New", "Changed"}
        /\ lookup_client(ClientId) # None
        /\ lookup_assistant(ClientId) = None) =>
          /\ frame.note = "No assistant found"
          /\ frame.sent = 0

\* C12: send and summarize for a client without a stored record answer 404
\* "Client does not exist!" and decrypt no key, open no session, create no
\* thread and submit no message.
C12_UnknownClientIs404 ==
    (fwd.path \in {"add_thread", "summarize"} /\ ~fwd.had_client) =>
        /\ fwd.status = 404
        /\ fwd.response = "Client does not exist!"
        /\ ~fwd.decrypted
        /\ fwd.session_key = None
        /\ fwd.threads = 0
        /\ fwd.sent = 0

C12_Witness ==
    /\ fwd.path = "summarize"
    /\ ~fwd.had_client
    /\ fwd.status = 404
    /\ fwd.content = SummarizePrompt

\* C13: POST /client for a client that has a record answers 409 "Client
\* already exists!" and leaves the clients and assistants tables as they were,
\* with no assistant created remotely.
C13_ExistingClientIs409 ==
    (fwd.path = "create_client" /\ fwd.had_client) =>
        /\ fwd.status = 409
        /\ fwd.response = "Client already exists!"
        /\ <<clients, assistants>> = fwd.tables
        /\ fwd.assistant_calls = 0

C13_Witness ==
    /\ fwd.path = "create_client"
    /\ fwd.had_client
    /\ fwd.status = 409
    /\ ClientId \in DOMAIN clients

\* C14: after a POST /client a client record exists exactly when an
\* assistant record exists for the same client (given it was so before).
C14_ClientIffAssistant ==
    (/\ fwd.path = "create_client"
     /\ (ClientId \in DOMAIN fwd.tables[1]) <=> (ClientId \in DOMAIN fwd.tables[2])) =>
        ((ClientId \in DOMAIN clients) <=> (ClientId \in DOMAIN assistants))

\* C15: the api key round-trips through encrypt_api_key and decrypt_api_key;
\* the clients table holds the output of encrypt_api_key, never the key
\* itself; the key add_thread opens the backend session with is the key the
\* client was created with.
C15_KeyStoredEncryptedRoundTrips ==
    /\ \A k \in ApiKeys, iv \in IVs : decrypt_api_key(encrypt_api_key(k, iv)) = k
    /\ \A c \in DOMAIN clients :
          /\ clients[c] # supplied[c]
          /\ \E iv \in IVs : clients[c] = encrypt_api_key(supplied[c], iv)
    /\ (fwd.path \in {"add_thread", "summarize"} /\ fwd.had_client) =>
          fwd.session_key = Some(supplied[ClientId])

C15_Witness ==
    /\ fwd.path = "add_thread"
    /\ fwd.tables[1] = clients
    /\ ClientId \in DOMAIN clients
    /\ supplied[ClientId] = <<233>>
    /\ clients[ClientId] = <<128, 2, 79, 54>>
    /\ fwd.session_key = Some(<<233>>)

\* the positions of a text that hold an invocation marker: an @ followed at
\* once by an identifier, or by one quote and an identifier
Markers(text) ==
    {i \in 1..Len(text) :
        /\ text[i] = AT
        /\ \/ (i + 1 <= Len(text) /\ IsWord(text[i + 1]))
           \/ (i + 2 <= Len(text) /\ IsQuote(text[i + 1]) /\ IsWord(text[i + 2]))}

\* C16: detect_tool_invocation returns the identifier of the first marker
\* of the text, quotes stripped, whatever follows that marker, and None for
\* a text without a marker.
C16_FirstMarkerOnly ==
    tool.op = "detect" =>
        LET text == tool.text
            ms == Markers(text)
        IN  IF ms = {}
            THEN tool.name = None
            ELSE LET i == CHOOSE m \in ms : \A o \in ms : m <= o
                     s == IF IsWord(text[i + 1]) THEN i + 1 ELSE i + 2
                     id == tool.name[1]
                     e == s + Len(id) - 1
                 IN  /\ tool.name # None
                     /\ Len(id) >= 1
                     /\ e <= Len(text)
                     /\ id = SubSeq(text, s, e)
                     /\ \A j \in 1..Len(id) : IsWord(id[j])
                     /\ e = Len(text) \/ ~IsWord(text[e + 1])
                     /\ \A n \in e..Len(text) :
                           detect_tool_invocation(SubSeq(text, 1, n)) = tool.name

C16_Witness ==
    /\ tool.op = "detect"
    /\ tool.text = <<AT, DQ, "a", AT>> \o <<"b">>
    /\ tool.name = Some(<<"a">>)

IsPrefix(a, b) == Len(a) <= Len(b) /\ SubSeq(b, 1, Len(a)) = a

\* C17: a create_file text with a filename label and path token and a
\* content label and quoted block gives status ready with exactly that path
\* and exactly that block, in either order of the labels and whatever
\* quote characters the block holds.
C17_CreateFileExtractsBoth ==
    (/\ tool.op = "execute"
     /\ tool.name = Some(<<"create_file">>)
     /\ tool.parts.filename # "none"
     /\ tool.parts.block \in {"plain", "lines", "apostrophe"})
    => /\ tool.result.status = "ready"
       /\ tool.result.filename = Path
       /\ tool.result.content = BlockText(tool.parts.block)

\* a text has extractable content when a content label is followed by
\* separators, an opening quote, at least one character and a later quote
HasBlock(text) ==
    \E i, p, e \in 1..Len(text) :
        /\ text[i] \in Spellings("content")
        /\ i + 1 < p
        /\ \A j \in (i + 1)..(p - 1) : IsSep(text[j])
        /\ IsQuote(text[p])
        /\ p + 1 < e
        /\ IsQuote(text[e])

\* C18: a create_file text without extractable content gives status
\* pending_content, never error or ready, with the filename of the text or
\* docs/ONBOARDING.md when it has no filename label; ready comes only with
\* a non-empty content.
C18_PendingContent ==
    (tool.op = "execute" /\ tool.name = Some(<<"create_file">>))
    => /\ ~HasBlock(tool.text)
          => /\ tool.result.status = "pending_content"
             /\ "content" \notin DOMAIN tool.result
             /\ tool.parts.filename = "none"
                   => tool.result.filename = DefaultFilename
             /\ tool.parts.filename # "none"
                   => IsPrefix(Path, tool.result.filename)
       /\ tool.parts.block \in {"none", "bare"} => ~HasBlock(tool.text)
       /\ tool.result.status = "ready"
          => tool.result.content # <<>> /\ HasBlock(tool.text)

C18_Witness ==
    /\ tool.op = "execute"
    /\ tool.text = <<AT, "create_file">>
    /\ tool.result = [tool |-> "create_file", status |-> "pending_content",
                      filename |-> DefaultFilename]

\* get_recent_context has run on the memories the backend returned
RecentCall ==
    /\ tool.op = "execute"
    /\ tool.name = Some(<<"get_recent_context">>)
    /\ tool.backend = "ok"
    /\ tool.parts.hours # "long"

\* the hours written in each text, and 24 where none is
HoursWritten(kind) ==
    CASE kind = "two digits" -> 48
      [] kind \in {"one digit", "singular", "no colon", "tight"} -> 2
      [] kind = "second label" -> 8
      [] OTHER -> 24

Bucketed(context) ==
    UNION {{context[b][i] : i \in 1..Len(context[b])} : b \in DOMAIN context}

\* C20: every entry get_recent_context places in a bucket was ingested at a
\* time t with now - h < t <= now.
C20_WindowIsHalfOpen ==
    RecentCall
    => \A e \in Bucketed(tool.result.context) :
          Now - tool.result.hours < e.ingested_at /\ e.ingested_at <= Now

\* the bucket the source tag of a memory names, compared without case
NamedBucket(memory) ==
    IF memory.source \in {Some("telegram")} THEN "telegram"
    ELSE IF memory.source \in {Some("Drive")} THEN "drive"
    ELSE IF memory.source \in {Some("git"), Some("GitHub")} THEN "github"
    ELSE "none"

\* the buckets in which memory i of the call has an entry
BucketsOf(i) ==
    {b \in DOMAIN tool.result.context :
        \E k \in 1..Len(tool.result.context[b]) :
            tool.result.context[b][k].memory_id = i}

\* C21: a memory is placed in at most one bucket, the one its source tag
\* names without regard to case (telegram, drive, github or git); a memory
\* with another tag or none is in no bucket.
C21_BucketBySource ==
    RecentCall =>
        \A i \in 1..Len(tool.memories) :
            /\ BucketsOf(i) \subseteq {NamedBucket(tool.memories[i])} \ {"none"}
            /\ \A b \in BucketsOf(i) :
                  Cardinality({k \in 1..Len(tool.result.context[b]) :
                      tool.result.context[b][k].memory_id = i}) = 1
            /\ (/\ NamedBucket(tool.memories[i]) # "none"
                /\ tool.memories[i].ingested_at.kind = "iso"
                /\ tool.memories[i].ingested_at.t > Now - tool.result.hours
                /\ tool.memories[i].ingested_at.t <= Now)
               => BucketsOf(i) # {}

C21_Witness ==
    /\ RecentCall
    /\ tool.parts.hours = "none"
    /\ tool.memories =
          <<[source |-> Some("GitHub"), ingested_at |-> [kind |-> "iso", t |-> Now - 1]],
            [source |-> Some("slack"), ingested_at |-> [kind |-> "iso", t |-> Now - 1]]>>
    /\ tool.result.context =
          [telegram |-> <<>>, drive |-> <<>>,
           github |-> <<[memory_id |-> 1, ingested_at |-> Now - 1]>>]

Readable(memory) == memory.ingested_at.kind = "iso"

\* the ingestion times of each bucket, in order
Times(context) ==
    [b \in DOMAIN context |->
        [k \in 1..Len(context[b]) |-> context[b][k].ingested_at]]

\* C22: a memory whose ingested_at is missing or unparsable is in no
\* bucket, the call still succeeds, and the other memories are bucketed as
\* they are when the list holds only them.
C22_BadStampSkipped ==
    RecentCall =>
        /\ tool.result.status = "success"
        /\ \A i \in 1..Len(tool.memories) :
              ~Readable(tool.memories[i]) => BucketsOf(i) = {}
        /\ Times(tool.result.context) =
              Times(recent_context_of(tool.result.hours,
                        SelectSeq(tool.memories, Readable)).context)

C22_Witness ==
    /\ RecentCall
    /\ tool.parts.hours = "none"
    /\ tool.memories =
          <<[source |-> Some("telegram"), ingested_at |-> [kind |-> "bad", t |-> 0]],
            [source |-> Some("Drive"), ingested_at |-> [kind |-> "iso", t |-> Now - 1]]>>
    /\ tool.result.status = "success"
    /\ tool.result.context =
          [telegram |-> <<>>, github |-> <<>>,
           drive |-> <<[memory_id |-> 2, ingested_at |-> Now - 1]>>]

\* a summary has been rendered from the buckets of tool.result.context
Rendered == tool.op = "format" \/ RecentCall

\* C23: each section of the summary shows at most 5 entries, the most
\* recently ingested of its bucket, most recent first, whatever the order
\* of the bucket; the count is the size of the bucket.
C23_MostRecentFirst ==
    Rendered =>
        \A n \in 1..Len(tool.result.formatted.sections) :
            LET sec == tool.result.formatted.sections[n]
                all == tool.result.context[sec.bucket]
                shown == {k \in 1..Len(all) :
                             \E j \in 1..Len(sec.items) : sec.items[j] = all[k]}
            IN  /\ Len(sec.items) <= MaxShown
                /\ sec.count = Len(all)
                /\ \A j \in 1..(Len(sec.items) - 1) :
                      sec.items[j].ingested_at >= sec.items[j + 1].ingested_at
                /\ \A k \in shown, o \in (1..Len(all)) \ shown :
                      all[k].ingested_at >= all[o].ingested_at

\* generate_mermaid_graph has run on the memories the backend returned
GraphCall ==
    /\ tool.op = "execute"
    /\ tool.name = Some(<<"generate_mermaid_graph">>)
    /\ tool.backend = "ok"

\* the memories the graph is drawn from: those about the topic, in order
RelatedTo(topic, memories) ==
    LET About(memory) ==
            \E k \in 1..Len(memory.content) :
                /\ k + Len(topic) - 1 <= Len(memory.content)
                /\ \A j \in 1..Len(topic) :
                      lower(memory.content[k + j - 1]) = lower(topic[j])
    IN  SelectSeq(memories, About)

Drawn ==
    IF tool.op = "graph" THEN tool.memories
    ELSE RelatedTo(tool.result.topic, tool.memories)

\* the positions among the first 10 of a list whose memory goes to a bucket
Placed(memories) ==
    {i \in 1..Len(memories) : i <= MaxNodes /\ NamedBucket(memories[i]) # "none"}

NoDataEdge ==
    [from |-> "Start", to |-> <<"NoData">>, label |-> <<"No related data found">>]

\* C24: the graph has the one leaf "No related data found" exactly when
\* none of the first 10 related memories goes to a bucket; otherwise it has
\* no such leaf, one category node per non-empty bucket, and one leaf with
\* its own node id per placed memory, at most 10.
C24_NoDataIffNothingPlaced ==
    (tool.op = "graph" \/ GraphCall) =>
        LET edges == tool.result.mermaid.edges
            E == 1..Len(edges)
            leaves == {k \in E : edges[k].from # "Start"}
            cats == {k \in E : edges[k].from = "Start" /\ edges[k] # NoDataEdge}
            placed == Placed(Drawn)
        IN  /\ Cardinality({k \in E : edges[k] = NoDataEdge}) =
                  (IF placed = {} THEN 1 ELSE 0)
            /\ placed = {} => Len(edges) = 1
            /\ Cardinality(leaves) = Cardinality(placed)
            /\ Cardinality(leaves) <= MaxNodes
            /\ \A k, o \in leaves : edges[k].to = edges[o].to => k = o
            /\ {edges[k].to[2] + 1 : k \in leaves} = placed
            /\ {edges[k].to[1] : k \in cats} =
                  {CASE NamedBucket(Drawn[i]) = "telegram" -> "Telegram"
                     [] NamedBucket(Drawn[i]) = "drive" -> "Drive"
                     [] OTHER -> "Code" : i \in placed}
            /\ \A k, o \in cats : edges[k].to = edges[o].to => k = o
            /\ \A k \in leaves : \E c \in cats : edges[c].to = <<edges[k].from>>

C24_Witness ==
    /\ tool.op = "graph"
    /\ Len(tool.memories) = MaxNodes + 1
    /\ \A i \in 1..MaxNodes : tool.memories[i].source = Some("slack")
    /\ tool.memories[MaxNodes + 1].source = Some("telegram")
    /\ tool.result.mermaid.edges = <<NoDataEdge>>

\* C25: without a topic label the topic is the text with the tool marker
\* removed and the white space around it trimmed, for the bare, the
\* double-quoted and the single-quoted marker: it never holds the marker.
C25_TopicWithoutMarker ==
    (GraphCall /\ tool.parts.topic \in {"none", "words"})
    => /\ tool.result.topic = (IF tool.parts.topic = "none" THEN <<>> ELSE <<"auth">>)
       /\ \A k \in 1..Len(tool.result.topic) : tool.result.topic[k] # AT

ToolNames == {<<"create_file">>, <<"get_recent_context">>, <<"generate_mermaid_graph">>}

\* C26: execute_tool raises nothing: every call returns a result whose
\* status is success, error, pending_content or ready; a backend that
\* raises or returns malformed entries gives status error; a name other
\* than the three tools gives the error "Unknown tool: <name>" and the
\* backend is not queried.
C26_NeverRaises ==
    tool.op = "execute" =>
        /\ "raised" \notin DOMAIN tool.result
        /\ tool.result.status \in {"success", "error", "pending_content", "ready"}
        /\ (tool.queried /\ tool.backend \in {"raises", "malformed"})
              => tool.result.status = "error" /\ "error" \in DOMAIN tool.result
        /\ tool.name[1] \notin ToolNames
              => /\ tool.result = [tool |-> tool.name[1], status |-> "error",
                                   error |-> <<"Unknown tool: ">> \o tool.name[1]]
                 /\ ~tool.queried

NotForwarded(fr) ==
    /\ fr.done
    /\ fr.class \in {"New", "Changed"}
    /\ fr.fwd \in {"none", "failed"}

\* C28: the step that ends the processing of a New or Changed document
\* without a completed forward (no client, no assistant, or the backend
\* call or stream raising) leaves the document store as it was.
C28_NoForwardNoWrite ==
    [][(frame' # frame /\ NotForwarded(frame')) => store' = store]_vars

C28_Witness ==
    /\ NotForwarded(frame)
    /\ frame.fwd = "failed"
    /\ frame.class = "Changed"
    /\ frame.sent = 1
    /\ frame.writes = 0
    /\ lookup_drive_document(store, frame.file) = frame.before
    /\ store[frame.file].content_hash # frame.content_hash

\* the stored hash of a document is that of its source content
Stored(f) ==
    /\ f \in DOMAIN store
    /\ store[f].content_hash = compute_content_hash(drive[f].content)

\* C29: a document whose content differs from its stored hash has the hash
\* of that content stored eventually, when its own fetch, forward and store
\* write succeed again and again and the poller is never stopped, whatever
\* fails for the other documents of the list.
C29_EventuallyStored ==
    (/\ ClientId \in DOMAIN clients
     /\ ClientId \in DOMAIN assistants
     /\ [](pc \notin {"escaped", "stopped"}))
    => <>Stored(LiveDoc)

\* the update of a call carries message text
HasText(update) ==
    /\ update.message # None
    /\ update.message[1].text \notin {None, Some("")}

\* "<sender username>: <message text>", the sender being from_user, else
\* sender_chat
ThreadText(update) ==
    LET msg == update.message[1] IN
    (IF msg.from_user # None THEN msg.from_user[1].username
                             ELSE msg.sender_chat[1].username)
       \o ": " \o msg.text[1]

\* C30: after any sequence of updates handed to log_thread, every update
\* that carried message text has a chats entry whose text is
\* "<sender username>: <message text>", several messages of one chat
\* included, and an update with no message or no text called no store write.
C30_EveryTextSaved ==
    \A i \in 1..Len(delivered) :
        LET update == delivered[i].update IN
        IF HasText(update)
        THEN \E k \in DOMAIN chats : chats[k].chat = ThreadText(update)
        ELSE ~delivered[i].called

====
